---- MODULE Spec2Model ----
(***************************************************************************)
(* PulsettoController (src/controller.js) as a state machine.              *)
(*                                                                         *)
(* The controller runs on a single-threaded event loop.  One action of    *)
(* the model is one event-loop turn: the synchronous code of a handler    *)
(* (a method call, a timer callback, the settlement of a promise the code *)
(* awaits on) together with the continuations that run in microtasks      *)
(* right after it, up to the next await on a promise that is still        *)
(* pending (a transport call or a pacing delay).  An async call that is   *)
(* suspended at such an await is a record in the bag `tasks`.             *)
(***************************************************************************)
EXTENDS Integers, Sequences, FiniteSets, Bags, TLC

----------------------------------------------------------------------------
(* Bounds of the model *)

\* calls the user interface makes into the controller in one run
MaxOps == 3
\* async calls suspended at the same time
MaxTasks == 2
\* last instant of the clock, in seconds
MaxTime == 2
\* pieces a line of the decoder's input space is made of, at most
MaxFragments == 3
\* longest elapsed time of a session the elapsed display is computed for, in
\* seconds
MaxElapsed == 125

----------------------------------------------------------------------------
(* Values *)

\* null, and every other falsy value the code tests with !x / if (x)
NULL == 0
\* an object handed back by the Web Bluetooth API
GattObject == 1

\* the mode characters the model's callers pass (mode buttons and presets),
\* two of the protocol's four: '0', 'A', 'C', 'D'
ModeInputs == {"A", "D"}
\* the intensity levels the model's callers pass (slider and presets)
IntensityInputs == {0, 3}
\* presets: the fields loadPreset reads, save the duration, which only sets
\* how long the one-shot stays pending; one preset with intensity 0 and one
\* with a positive intensity, of different modes
Presets == {[mode |-> "A", intensity |-> 0], [mode |-> "D", intensity |-> 3]}

\* Text is a sequence of characters, so that the string methods the
\* notification handler uses can be computed character by character.
\* the text a status element of the page shows before any report
NoText == <<"-">>
\* the literals handleNotification looks for
PulsettoPrefix == <<"P", "u", "l", "s", "e", "t", "t", "o", "_">>
FwPrefix == <<"f", "w", ":">>
BattKey == <<"B", "a", "t", "t", ":">>
ModeKey == <<"m", "o", "d", "e", ":">>
\* the white space String.prototype.trim removes, as far as lines carry it
WhiteSpace == {" ", "\n"}

\* the lines the device sends in a run of the controller: a battery line
\* that also reports the mode, a mode line and a line of no known kind
NotificationInputs ==
    { BattKey \o <<" ", "3", " ">> \o ModeKey \o <<"A">>,
      ModeKey \o <<"A", "\n">>,
      <<"o", "k">> }

\* the decoder's input space: the lines made of up to MaxFragments of these
\* pieces, the literals the handler looks for among them
Fragments ==
    {PulsettoPrefix, FwPrefix, BattKey, ModeKey, <<" ">>, <<"A">>, <<"3", "\n">>}

RECURSIVE Joined(_)
Joined(pieces) ==
    IF pieces = <<>> THEN <<>> ELSE Head(pieces) \o Joined(Tail(pieces))

Lines ==
    {Joined(pieces) : pieces \in UNION {[1..n -> Fragments] : n \in 0..MaxFragments}}

VARIABLES
    device, server, service, writeCharacteristic, notifyCharacteristic,
    currentMode, currentIntensity, sessionActive, sessionStartTime,
    timerInterval,
    intensitySlider,   \* document.getElementById('intensitySlider').value
    timerText,         \* document.getElementById('timer').textContent
    intervals,         \* live setInterval handles whose callback is updateTimer
    statusPollers,     \* live setInterval timers created by startStatusPolling
    listeners,         \* 'characteristicvaluechanged' listeners registered
    autoStops,         \* pending setTimeout one-shots created by loadPreset
    staleAutoStops,    \* history: those of them pending since before a stopSession() call of the user
    alerts,            \* alert() calls made so far
    deviceNameText,    \* document.getElementById('deviceName').textContent
    firmwareText,      \* document.getElementById('firmware').textContent
    batteryText,       \* document.getElementById('battery').textContent
    modeText,          \* document.getElementById('mode').textContent
    tasks,             \* bag of async calls suspended at an await
    now,               \* the clock, in seconds
    ops                \* events from outside so far: calls made by the user
                       \* interface and notifications sent by the device

gatt == <<device, server, service, writeCharacteristic, notifyCharacteristic>>
local == <<currentMode, currentIntensity, intensitySlider>>
session == <<sessionActive, sessionStartTime, timerInterval, intervals>>
timers == <<statusPollers, autoStops>>
env == <<now, ops>>
deviceStatus == <<deviceNameText, firmwareText, batteryText, modeText>>
vars == <<gatt, local, session, timers, staleAutoStops, timerText, listeners, alerts,
          deviceStatus, tasks, env>>

----------------------------------------------------------------------------
(* Helpers *)

\* Date.now(), in milliseconds
DateNow == now * 1000

\* TextEncoder().encode(cmd + '\n'): the line put on the wire
Encode(cmd) == cmd \o "\n"

\* Number.prototype.toString of a level
LevelString(level) == ToString(level)

\* n.toString() with no padding
NoPadStart(n) == ToString(n)

\* n.toString().padStart(2, '0')
PadStart2(n) == IF n < 10 THEN "0" \o ToString(n) ELSE ToString(n)

\* the text updateTimer computes from the clock and the start time
ElapsedText(start) ==
    LET elapsed == (DateNow - start) \div 1000
        minutes == elapsed \div 60
        seconds == elapsed % 60
    IN  PadStart2(minutes) \o ":" \o PadStart2(seconds)

\* s.startsWith(p)
StartsWith(s, p) == Len(s) >= Len(p) /\ SubSeq(s, 1, Len(p)) = p

\* the positions at which p occurs in s
Occurrences(s, p) ==
    {i \in 1..(Len(s) - Len(p) + 1) : SubSeq(s, i, i + Len(p) - 1) = p}

\* s.includes(p)
Includes(s, p) == Occurrences(s, p) # {}

Least(S) == CHOOSE i \in S : \A j \in S : i <= j
Greatest(S) == CHOOSE i \in S : \A j \in S : i >= j

\* s.split(p)[0]: what precedes the first occurrence of p, or all of s
SplitFirst(s, p) ==
    IF Includes(s, p) THEN SubSeq(s, 1, Least(Occurrences(s, p)) - 1) ELSE s

\* s.split(p)[1], for s that includes p: what lies between the first
\* occurrence of p and the next one
SplitSecond(s, p) ==
    SplitFirst(SubSeq(s, Least(Occurrences(s, p)) + Len(p), Len(s)), p)

\* s.trim()
Trim(s) ==
    LET kept == {i \in 1..Len(s) : s[i] \notin WhiteSpace}
    IN  IF kept = {} THEN <<>> ELSE SubSeq(s, Least(kept), Greatest(kept))

\* the text shown for a reported mode
ModeLabel(reported) ==
    IF reported = <<"0">> THEN <<"O", "F", "F">>
    ELSE IF reported = <<"A">> THEN <<"L", "E", "F", "T">>
    ELSE IF reported = <<"C">> THEN <<"R", "I", "G", "H", "T">>
    ELSE IF reported = <<"D">> THEN <<"B", "O", "T", "H">>
    ELSE reported

\* sendCommand goes on to writeValue (its early return is not taken)
CanWrite == writeCharacteristic # NULL

\* !this.currentMode
ModeUnset(mode) == mode = ""

\* a suspended async call: the method, the await it is suspended at, the
\* bytes of the writeValue it waits for (if any), and the loadPreset frame
\* awaiting it: <<frame>>, or <<>> when the call is not awaited by loadPreset;
\* `written` and `ready` are history: the writes of the call that have
\* completed, in order, and, for a startSession call, whether a connect()
\* had run to its end when the call was made
Task(op, pc, data, caller) ==
    [op |-> op, pc |-> pc, data |-> data, caller |-> caller, written |-> <<>>,
     ready |-> FALSE]

\* the call t goes on as u ...
\* ... once the write it awaited has completed
AfterWrite(t, u) ==
    [u EXCEPT !.written = Append(t.written, t.data), !.ready = t.ready]
\* ... once the pacing delay it awaited has elapsed
AfterDelay(t, u) == [u EXCEPT !.written = t.written, !.ready = t.ready]

Suspended == BagToSet(tasks)
NTasks == BagCardinality(tasks)
Count(S) == BagCardinality([t \in S |-> tasks[t]])
Spawn(t) == tasks (+) SetToBag({t})
Finish(t) == tasks (-) SetToBag({t})
Replace(t, u) == (tasks (-) SetToBag({t})) (+) SetToBag({u})

\* the writeValue promises that are pending: the writes in flight
InFlight == {t \in Suspended : t.data # ""}
NInFlight == Count(InFlight)

\* The connection state, which the code keeps implicitly.
\* connect() calls suspended at one of their transport calls
ConnectCalls == {t \in Suspended : t.op = "connect"}
Connecting == ConnectCalls # {}
\* a connect() has run to its end ('Connected!') and has called onConnected
Connected == listeners > 0
Idle == ~Connecting /\ ~Connected

\* the frame of a loadPreset(preset) call suspended at its await; `connected`
\* is history: whether the controller was connected when the call was made
PresetFrame(preset) == [preset |-> preset, connected |-> Connected]

\* a call from the user interface: the run's budget of calls, and a free
\* slot for the call to suspend in
UserCall ==
    /\ ops < MaxOps
    /\ NTasks < MaxTasks
    /\ ops' = ops + 1

\* setInterval hands out a handle no live timer has
FreshHandle == CHOOSE h \in 1..(Cardinality(intervals) + 1) : h \notin intervals

----------------------------------------------------------------------------
(* Construction *)

Init ==
    /\ device = NULL
    /\ server = NULL
    /\ service = NULL
    /\ writeCharacteristic = NULL
    /\ notifyCharacteristic = NULL
    /\ currentMode = "D"
    /\ currentIntensity = 5
    /\ sessionActive = FALSE
    /\ sessionStartTime = NULL
    /\ timerInterval = NULL
    /\ intensitySlider = 5
    /\ timerText = "00:00"
    /\ intervals = {}
    /\ statusPollers = 0
    /\ listeners = 0
    /\ autoStops = 0
    /\ staleAutoStops = 0
    /\ alerts = 0
    /\ deviceNameText = NoText
    /\ firmwareText = NoText
    /\ batteryText = NoText
    /\ modeText = NoText
    /\ tasks = EmptyBag
    /\ now = 1
    /\ ops = 0

----------------------------------------------------------------------------
(* connect and onConnected *)

\* connect(): runs to the await of requestDevice
Connect ==
    /\ UserCall
    /\ tasks' = Spawn(Task("connect", "requestDevice", "", <<>>))
    /\ UNCHANGED <<gatt, local, session, timers, timerText, listeners, alerts, staleAutoStops, deviceStatus, now>>

\* the first sendCommand of onConnected, called at the end of connect
OnConnectedTask ==
    IF CanWrite THEN Task("onConnected", "i", Encode("i"), <<>>)
                ELSE Task("onConnected", "delay1", "", <<>>)

\* the transport call a connect() awaits on resolves: the result is stored
\* and connect runs to its next await; after startNotifications the listener
\* is registered and onConnected runs to its first await
ConnectResolve(t) ==
    /\ t \in Suspended
    /\ t.op = "connect"
    /\ device' = IF t.pc = "requestDevice" THEN GattObject ELSE device
    /\ server' = IF t.pc = "gattConnect" THEN GattObject ELSE server
    /\ service' = IF t.pc = "getPrimaryService" THEN GattObject ELSE service
    /\ writeCharacteristic' =
          IF t.pc = "getWriteCharacteristic" THEN GattObject ELSE writeCharacteristic
    /\ notifyCharacteristic' =
          IF t.pc = "getNotifyCharacteristic" THEN GattObject ELSE notifyCharacteristic
    /\ listeners' = IF t.pc = "startNotifications" THEN listeners + 1 ELSE listeners
    /\ tasks' = Replace(t,
          CASE t.pc = "requestDevice" -> Task("connect", "gattConnect", "", <<>>)
            [] t.pc = "gattConnect" -> Task("connect", "getPrimaryService", "", <<>>)
            [] t.pc = "getPrimaryService" -> Task("connect", "getWriteCharacteristic", "", <<>>)
            [] t.pc = "getWriteCharacteristic" -> Task("connect", "getNotifyCharacteristic", "", <<>>)
            [] t.pc = "getNotifyCharacteristic" -> Task("connect", "startNotifications", "", <<>>)
            [] t.pc = "startNotifications" -> OnConnectedTask)
    /\ UNCHANGED <<local, session, timers, timerText, alerts, staleAutoStops, deviceStatus, env>>

\* the transport call a connect() awaits on rejects: the catch block
ConnectReject(t) ==
    /\ t \in Suspended
    /\ t.op = "connect"
    /\ alerts' = alerts + 1
    /\ tasks' = Finish(t)
    /\ UNCHANGED <<gatt, local, session, timers, timerText, listeners, staleAutoStops, deviceStatus, env>>

\* startStatusPolling()
StartStatusPolling == statusPollers + 1

\* onConnected with startStatusPolling() called before the queries are over
OnConnectedPollingEarly(t) ==
    /\ t \in Suspended
    /\ t.op = "onConnected"
    /\ t.pc \in {"i", "v", "Q"}
    /\ IF t.pc = "Q"
          THEN /\ statusPollers' = statusPollers
               /\ tasks' = Finish(t)
          ELSE /\ statusPollers' = IF t.pc = "i" THEN StartStatusPolling ELSE statusPollers
               /\ tasks' = Replace(t, AfterWrite(t, Task("onConnected",
                                IF t.pc = "i" THEN "delay1" ELSE "delay2", "", <<>>)))
    /\ UNCHANGED <<gatt, local, session, autoStops, timerText, listeners, alerts,
                   staleAutoStops, deviceStatus, env>>

\* onConnected resumes after the write of 'i', 'v' or 'Q' has completed
OnConnectedWritten(t) ==
    /\ t \in Suspended
    /\ t.op = "onConnected"
    /\ t.pc \in {"i", "v", "Q"}
    /\ IF t.pc = "Q"
          THEN /\ statusPollers' = StartStatusPolling
               /\ tasks' = Finish(t)
          ELSE /\ statusPollers' = statusPollers
               /\ tasks' = Replace(t, AfterWrite(t, Task("onConnected",
                                IF t.pc = "i" THEN "delay1" ELSE "delay2", "", <<>>)))
    /\ UNCHANGED <<gatt, local, session, autoStops, timerText, listeners, alerts, staleAutoStops, deviceStatus, env>>

\* onConnected resumes after a pacing delay: the next sendCommand
OnConnectedDelayed(t) ==
    /\ t \in Suspended
    /\ t.op = "onConnected"
    /\ t.pc \in {"delay1", "delay2"}
    /\ IF t.pc = "delay1"
          THEN /\ tasks' = Replace(t, AfterDelay(t,
                      IF CanWrite THEN Task("onConnected", "v", Encode("v"), <<>>)
                                  ELSE Task("onConnected", "delay2", "", <<>>)))
               /\ statusPollers' = statusPollers
          ELSE IF CanWrite
                  THEN /\ tasks' = Replace(t, AfterDelay(t,
                                          Task("onConnected", "Q", Encode("Q"), <<>>)))
                       /\ statusPollers' = statusPollers
                  ELSE /\ tasks' = Finish(t)
                       /\ statusPollers' = StartStatusPolling
    /\ UNCHANGED <<gatt, local, session, autoStops, timerText, listeners, alerts, staleAutoStops, deviceStatus, env>>

\* a writeValue rejects: sendCommand throws, and so does every async caller
\* awaiting it; no caller catches, so the call chain ends there
WriteReject(t) ==
    /\ t \in InFlight
    /\ tasks' = Finish(t)
    /\ UNCHANGED <<gatt, local, session, timers, timerText, listeners, alerts, staleAutoStops, deviceStatus, env>>

----------------------------------------------------------------------------
(* setMode, setIntensity and the intensity slider *)

\* a setMode, setIntensity or status-poll call resumes after its write has
\* completed: nothing is left to do
CommandWritten(t) ==
    /\ t \in InFlight
    /\ t.op \in {"setMode", "setIntensity", "poll"}
    /\ tasks' = Finish(t)
    /\ UNCHANGED <<gatt, local, session, timers, timerText, listeners, alerts, staleAutoStops, deviceStatus, env>>

\* sendCommand(cmd) called from `op` with nothing after it: the bag of
\* suspended calls once the call has reached its await (or has returned)
SendOnly(op, cmd) ==
    IF CanWrite THEN Spawn(Task(op, "write", Encode(cmd), <<>>)) ELSE tasks

\* setMode(mode)
SetMode(mode) ==
    /\ UserCall
    /\ currentMode' = mode
    /\ tasks' = SendOnly("setMode", mode)
    /\ UNCHANGED <<gatt, currentIntensity, intensitySlider, session, timers,
                   timerText, listeners, alerts, staleAutoStops, deviceStatus, now>>

\* setIntensity(level)
SetIntensity(level) ==
    /\ UserCall
    /\ currentIntensity' = level
    /\ tasks' = SendOnly("setIntensity", LevelString(level))
    /\ UNCHANGED <<gatt, currentMode, intensitySlider, session, timers,
                   timerText, listeners, alerts, staleAutoStops, deviceStatus, now>>

\* the slider's 'input' listener: the user moves the slider to `value`
SliderInput(value) ==
    /\ UserCall
    /\ intensitySlider' = value
    /\ IF sessionActive
          THEN /\ currentIntensity' = value
               /\ tasks' = SendOnly("setIntensity", LevelString(value))
          ELSE UNCHANGED <<currentIntensity, tasks>>
    /\ UNCHANGED <<gatt, currentMode, session, timers, timerText, listeners, alerts, staleAutoStops, deviceStatus, now>>

----------------------------------------------------------------------------
(* startSession and loadPreset *)

\* startSession() from its first line to its first pending await, called
\* with currentMode = mode and awaited by `caller`
StartSessionCall(mode, caller) ==
    IF ModeUnset(mode)
       THEN /\ alerts' = alerts + 1
            /\ autoStops' = IF caller # <<>> THEN autoStops + 1 ELSE autoStops
            /\ currentMode' = mode
            /\ UNCHANGED <<session, tasks>>
       ELSE /\ sessionActive' = TRUE
            /\ sessionStartTime' = DateNow
            /\ currentMode' = mode
            /\ tasks' = Spawn([(IF CanWrite
                                  THEN Task("startSession", "setMode", Encode(mode), caller)
                                  ELSE Task("startSession", "delay", "", caller))
                                EXCEPT !.ready = Connected])
            /\ UNCHANGED <<timerInterval, intervals, autoStops, alerts>>

\* startSession()
StartSession ==
    /\ UserCall
    /\ StartSessionCall(currentMode, <<>>)
    /\ UNCHANGED <<gatt, currentIntensity, intensitySlider, statusPollers,
                   timerText, listeners, staleAutoStops, deviceStatus, now>>

\* loadPreset(preset), to the first pending await of the startSession it calls
LoadPreset(preset) ==
    /\ UserCall
    /\ intensitySlider' = preset.intensity
    /\ StartSessionCall(preset.mode, <<PresetFrame(preset)>>)
    /\ UNCHANGED <<gatt, currentIntensity, statusPollers, timerText, listeners, staleAutoStops, deviceStatus, now>>

\* startSession resumes after setMode's write has completed: the pacing delay
StartSessionModeWritten(t) ==
    /\ t \in Suspended
    /\ t.op = "startSession"
    /\ t.pc = "setMode"
    /\ tasks' = Replace(t, AfterWrite(t, Task("startSession", "delay", "", t.caller)))
    /\ UNCHANGED <<gatt, local, session, timers, timerText, listeners, alerts, staleAutoStops, deviceStatus, env>>

\* the end of startSession: the elapsed ticker is started; a loadPreset
\* awaiting the call then schedules its auto-stop one-shot
StartTimer(t) ==
    /\ timerInterval' = FreshHandle
    /\ intervals' = intervals \cup {FreshHandle}
    /\ autoStops' = IF t.caller # <<>> THEN autoStops + 1 ELSE autoStops
    /\ tasks' = Finish(t)

\* startSession resuming after the pacing delay with no test of the level
StartSessionSendingZero(t) ==
    /\ t \in Suspended
    /\ t.op = "startSession"
    /\ t.pc = "delay"
    /\ LET intensity == intensitySlider
       IN  /\ currentIntensity' = intensity
           /\ IF CanWrite
                 THEN /\ tasks' = Replace(t, AfterDelay(t,
                                       Task("startSession", "setIntensity",
                                            Encode(LevelString(intensity)), t.caller)))
                      /\ UNCHANGED <<timerInterval, intervals, autoStops>>
                 ELSE StartTimer(t)
    /\ UNCHANGED <<gatt, currentMode, intensitySlider, sessionActive, sessionStartTime,
                   statusPollers, timerText, listeners, alerts, staleAutoStops,
                   deviceStatus, env>>

\* startSession resumes after the pacing delay: the slider is read
StartSessionDelayed(t) ==
    /\ t \in Suspended
    /\ t.op = "startSession"
    /\ t.pc = "delay"
    /\ LET intensity == intensitySlider
       IN  IF intensity > 0
              THEN /\ currentIntensity' = intensity
                   /\ IF CanWrite
                         THEN /\ tasks' = Replace(t, AfterDelay(t,
                                               Task("startSession", "setIntensity",
                                                    Encode(LevelString(intensity)), t.caller)))
                              /\ UNCHANGED <<timerInterval, intervals, autoStops>>
                         ELSE StartTimer(t)
              ELSE /\ currentIntensity' = currentIntensity
                   /\ StartTimer(t)
    /\ UNCHANGED <<gatt, currentMode, intensitySlider, sessionActive, sessionStartTime,
                   statusPollers, timerText, listeners, alerts, staleAutoStops, deviceStatus, env>>

\* startSession resumes after setIntensity's write has completed
StartSessionIntensityWritten(t) ==
    /\ t \in Suspended
    /\ t.op = "startSession"
    /\ t.pc = "setIntensity"
    /\ StartTimer(t)
    /\ UNCHANGED <<gatt, local, sessionActive, sessionStartTime, statusPollers,
                   timerText, listeners, alerts, staleAutoStops, deviceStatus, env>>

----------------------------------------------------------------------------
(* stopSession and the preset auto-stop *)

\* stopSession() from its first line to the await of its write
StopSessionCall ==
    /\ sessionActive' = FALSE
    /\ intervals' = IF timerInterval # NULL THEN intervals \ {timerInterval} ELSE intervals
    /\ timerInterval' = NULL
    /\ sessionStartTime' = sessionStartTime
    /\ IF CanWrite
          THEN /\ tasks' = Spawn(Task("stopSession", "end", Encode("-"), <<>>))
               /\ timerText' = timerText
          ELSE /\ tasks' = tasks
               /\ timerText' = "00:00"

\* stopSession() with a complaint when there is no session to stop
StopSessionComplaining ==
    /\ UserCall
    /\ StopSessionCall
    /\ staleAutoStops' = autoStops
    /\ alerts' = IF sessionActive THEN alerts ELSE alerts + 1
    /\ UNCHANGED <<gatt, local, timers, listeners, deviceStatus, now>>

\* stopSession()
StopSession ==
    /\ UserCall
    /\ StopSessionCall
    /\ staleAutoStops' = autoStops
    /\ UNCHANGED <<gatt, local, timers, listeners, alerts, deviceStatus, now>>

\* a one-shot scheduled by loadPreset fires; `stale` tells whether it is one
\* of those pending since before a stopSession() call of the user
AutoStopFire(stale) ==
    /\ IF stale THEN staleAutoStops > 0 ELSE autoStops > staleAutoStops
    /\ NTasks < MaxTasks
    /\ autoStops' = autoStops - 1
    /\ staleAutoStops' = IF stale THEN staleAutoStops - 1 ELSE staleAutoStops
    /\ StopSessionCall
    /\ UNCHANGED <<gatt, local, statusPollers, listeners, alerts, deviceStatus, env>>

\* stopSession resumes after the write of '-' has completed: the UI reset
StopSessionWritten(t) ==
    /\ t \in Suspended
    /\ t.op = "stopSession"
    /\ timerText' = "00:00"
    /\ tasks' = Finish(t)
    /\ UNCHANGED <<gatt, local, session, timers, listeners, alerts, staleAutoStops, deviceStatus, env>>

----------------------------------------------------------------------------
(* Notifications *)

\* handleNotification with the test for 'mode:' made whether or not the
\* test for 'Batt:' matched
HandleNotificationNoElse(value) ==
    /\ listeners > 0
    /\ IF StartsWith(value, PulsettoPrefix)
          THEN /\ deviceNameText' = Trim(value)
               /\ UNCHANGED <<firmwareText, batteryText, modeText>>
          ELSE IF StartsWith(value, FwPrefix)
          THEN /\ firmwareText' = Trim(value)
               /\ UNCHANGED <<deviceNameText, batteryText, modeText>>
          ELSE /\ batteryText' = IF Includes(value, BattKey)
                                    THEN Trim(SplitSecond(value, BattKey)) \o <<"V">>
                                    ELSE batteryText
               /\ modeText' = IF Includes(value, ModeKey)
                                 THEN ModeLabel(Trim(SplitSecond(value, ModeKey)))
                                 ELSE modeText
               /\ UNCHANGED <<deviceNameText, firmwareText>>
    /\ UNCHANGED <<gatt, local, session, timers, timerText, listeners, alerts, tasks,
                   staleAutoStops, now>>

\* handleNotification with the test for 'mode:' ahead of the test for 'Batt:'
HandleNotificationModeFirst(value) ==
    /\ listeners > 0
    /\ IF StartsWith(value, PulsettoPrefix)
          THEN /\ deviceNameText' = Trim(value)
               /\ UNCHANGED <<firmwareText, batteryText, modeText>>
          ELSE IF StartsWith(value, FwPrefix)
          THEN /\ firmwareText' = Trim(value)
               /\ UNCHANGED <<deviceNameText, batteryText, modeText>>
          ELSE IF Includes(value, ModeKey)
          THEN /\ modeText' = ModeLabel(Trim(SplitSecond(value, ModeKey)))
               /\ UNCHANGED <<deviceNameText, firmwareText, batteryText>>
          ELSE IF Includes(value, BattKey)
          THEN /\ batteryText' = Trim(SplitSecond(value, BattKey)) \o <<"V">>
               /\ UNCHANGED <<deviceNameText, firmwareText, modeText>>
          ELSE UNCHANGED deviceStatus
    /\ UNCHANGED <<gatt, local, session, timers, timerText, listeners, alerts, tasks,
                   staleAutoStops, now>>

\* handleNotification(event), for an event whose value decodes to `value`
HandleNotification(value) ==
    /\ listeners > 0
    /\ IF StartsWith(value, PulsettoPrefix)
          THEN /\ deviceNameText' = Trim(value)
               /\ UNCHANGED <<firmwareText, batteryText, modeText>>
          ELSE IF StartsWith(value, FwPrefix)
          THEN /\ firmwareText' = Trim(value)
               /\ UNCHANGED <<deviceNameText, batteryText, modeText>>
          ELSE IF Includes(value, BattKey)
          THEN /\ batteryText' = Trim(SplitSecond(value, BattKey)) \o <<"V">>
               /\ UNCHANGED <<deviceNameText, firmwareText, modeText>>
          ELSE IF Includes(value, ModeKey)
          THEN /\ modeText' = ModeLabel(Trim(SplitSecond(value, ModeKey)))
               /\ UNCHANGED <<deviceNameText, firmwareText, batteryText>>
          ELSE UNCHANGED deviceStatus
    /\ UNCHANGED <<gatt, local, session, timers, timerText, listeners, alerts, tasks,
                   staleAutoStops, now>>

\* the device sends a line: the 'characteristicvaluechanged' event
Notification(value) ==
    /\ ops < MaxOps
    /\ ops' = ops + 1
    /\ HandleNotification(value)

----------------------------------------------------------------------------
(* Timers *)

\* a tick of a startStatusPolling interval
PollTick ==
    /\ statusPollers > 0
    /\ NTasks < MaxTasks
    /\ tasks' = IF CanWrite THEN Spawn(Task("poll", "write", Encode("Q"), <<>>)) ELSE tasks
    /\ UNCHANGED <<gatt, local, session, timers, timerText, listeners, alerts, staleAutoStops, deviceStatus, env>>

\* a tick of the elapsed ticker with handle h: updateTimer()
UpdateTimer(h) ==
    /\ h \in intervals
    /\ timerText' = IF sessionStartTime = NULL THEN timerText
                                                ELSE ElapsedText(sessionStartTime)
    /\ UNCHANGED <<gatt, local, session, timers, listeners, alerts, tasks, staleAutoStops, deviceStatus, env>>

\* a second passes
ClockTick ==
    /\ now < MaxTime
    /\ now' = now + 1
    /\ UNCHANGED <<gatt, local, session, timers, timerText, listeners, alerts, tasks, staleAutoStops, deviceStatus, ops>>

----------------------------------------------------------------------------

Next ==
    \/ Connect
    \/ \E t \in Suspended : ConnectResolve(t)
    \/ \E t \in Suspended : ConnectReject(t)
    \/ \E t \in Suspended : OnConnectedWritten(t)
    \/ \E t \in Suspended : OnConnectedDelayed(t)
    \/ \E t \in Suspended : WriteReject(t)
    \/ \E t \in Suspended : CommandWritten(t)
    \/ \E mode \in ModeInputs : SetMode(mode)
    \/ \E level \in IntensityInputs : SetIntensity(level)
    \/ \E value \in IntensityInputs : SliderInput(value)
    \/ StartSession
    \/ \E preset \in Presets : LoadPreset(preset)
    \/ \E t \in Suspended : StartSessionModeWritten(t)
    \/ \E t \in Suspended : StartSessionDelayed(t)
    \/ \E t \in Suspended : StartSessionIntensityWritten(t)
    \/ StopSession
    \/ \E stale \in BOOLEAN : AutoStopFire(stale)
    \/ \E t \in Suspended : StopSessionWritten(t)
    \/ \E value \in NotificationInputs : Notification(value)
    \/ PollTick
    \/ \E h \in intervals : UpdateTimer(h)
    \/ ClockTick

Spec == Init /\ [][Next]_vars

----------------------------------------------------------------------------
(* The notification decoder on its input space *)

\* a connect() has succeeded and its onConnected has run to its end; nothing
\* else has happened
InitDecode ==
    /\ device = GattObject
    /\ server = GattObject
    /\ service = GattObject
    /\ writeCharacteristic = GattObject
    /\ notifyCharacteristic = GattObject
    /\ currentMode = "D"
    /\ currentIntensity = 5
    /\ sessionActive = FALSE
    /\ sessionStartTime = NULL
    /\ timerInterval = NULL
    /\ intensitySlider = 5
    /\ timerText = "00:00"
    /\ intervals = {}
    /\ statusPollers = 1
    /\ listeners = 1
    /\ autoStops = 0
    /\ staleAutoStops = 0
    /\ alerts = 0
    /\ deviceNameText = NoText
    /\ firmwareText = NoText
    /\ batteryText = NoText
    /\ modeText = NoText
    /\ tasks = EmptyBag
    /\ now = 1
    /\ ops = 1

\* the first line of the connection that changes the status shown
FirstReport(value) ==
    /\ deviceStatus = <<NoText, NoText, NoText, NoText>>
    /\ HandleNotification(value)
    /\ UNCHANGED ops

NextDecode == \E value \in Lines : FirstReport(value)

SpecDecode == InitDecode /\ [][NextDecode]_vars

----------------------------------------------------------------------------
(* The elapsed display over the length of a session *)

\* a connect() has succeeded, a startSession() called at instant 1 with the
\* slider at its default has run to its end, and the clock has gone on by
\* up to MaxElapsed seconds
InitTimer ==
    /\ device = GattObject
    /\ server = GattObject
    /\ service = GattObject
    /\ writeCharacteristic = GattObject
    /\ notifyCharacteristic = GattObject
    /\ currentMode = "D"
    /\ currentIntensity = 5
    /\ sessionActive = TRUE
    /\ sessionStartTime = 1000
    /\ timerInterval = 1
    /\ intensitySlider = 5
    /\ timerText = "00:00"
    /\ intervals = {1}
    /\ statusPollers = 1
    /\ listeners = 1
    /\ autoStops = 0
    /\ staleAutoStops = 0
    /\ alerts = 0
    /\ deviceNameText = NoText
    /\ firmwareText = NoText
    /\ batteryText = NoText
    /\ modeText = NoText
    /\ tasks = EmptyBag
    /\ now \in 1..(1 + MaxElapsed)
    /\ ops = 2

NextTimer == \E h \in intervals : UpdateTimer(h)

SpecTimer == InitTimer /\ [][NextTimer]_vars

----------------------------------------------------------------------------
(* Names used by the properties *)

\* the elapsed tickers that are running
ElapsedTickers == intervals

\* the state of the session and of its elapsed ticker
SessionFields == <<sessionActive, sessionStartTime, timerInterval, intervals>>

----------------------------------------------------------------------------
(* Properties *)

\* C1: in every reachable state the start timestamp is set if and only if
\* the session is active.
C1_StartTimestampIffActive == (sessionStartTime # NULL) <=> sessionActive

\* C2: the firing of a preset auto-stop one-shot that has been pending since
\* before the user called stopSession() leaves the session-active flag, the
\* start timestamp and the elapsed ticker as they were, whatever happened
\* between the stop and the firing.
C2_StaleAutoStopHarmless ==
    [][AutoStopFire(TRUE) => UNCHANGED SessionFields]_vars

\* C3: startSession() called while the session is active is a no-op: the
\* start timestamp stays, no further startSession call is left suspended on
\* its way to start a ticker, and no write is issued.
C3_StartWhileActiveIsNoOp ==
    [][(StartSession /\ sessionActive)
          => UNCHANGED <<sessionStartTime, intervals, tasks>>]_vars

\* C4: at most one elapsed ticker is running; a running elapsed ticker means
\* an active session; and once no startSession or stopSession call is in
\* progress, an inactive session has no elapsed ticker.
C4_TickerLivesWithSession ==
    /\ Cardinality(ElapsedTickers) <= 1
    /\ ElapsedTickers # {} => sessionActive
    /\ ({t \in Suspended : t.op \in {"startSession", "stopSession"}} = {} /\ ~sessionActive)
          => ElapsedTickers = {}

\* C5: at most one transport write is in flight at any time.
C5_OneWriteInFlight == NInFlight <= 1

\* C6: a session is active only in a connected state.
C6_ActiveOnlyConnected == sessionActive => Connected

\* C7: setMode and setIntensity called when the controller is not connected
\* are no-ops: no write is issued and currentMode and currentIntensity keep
\* their values.
C7_SetWhenNotConnectedIsNoOp ==
    [][(~Connected /\ ((\E mode \in ModeInputs : SetMode(mode))
                        \/ (\E level \in IntensityInputs : SetIntensity(level))))
          => UNCHANGED <<currentMode, currentIntensity, tasks>>]_vars

\* C8: when the only connect attempt of an unconnected controller fails, at
\* whichever transport call, the controller is Idle with no usable write
\* characteristic, exactly one error has been reported for it, no status
\* poller has been started and currentMode and currentIntensity are unchanged.
C8_FailedConnectLeavesIdle ==
    [][(~Connected /\ Cardinality(ConnectCalls) = 1 /\ NTasks = 1 /\ alerts = 0
          /\ (\E t \in Suspended : ConnectReject(t)))
          => /\ Idle'
             /\ ~CanWrite'
             /\ alerts' = 1
             /\ statusPollers' = 0
             /\ UNCHANGED <<currentMode, currentIntensity>>]_vars

\* C9: over any sequence of connect calls there is at most one notification
\* subscription and at most one status-poll ticker.
C9_OneSubscriptionOnePoller == listeners <= 1 /\ statusPollers <= 1

\* the step in which the loadPreset(preset) awaiting the startSession call t
\* completes, for a loadPreset called on a connected controller: its last
\* statement schedules the one-shot
LoadPresetCompletes(t, preset) ==
    /\ t \in Suspended
    /\ t.caller = <<[preset |-> preset, connected |-> TRUE]>>
    /\ StartSessionDelayed(t) \/ StartSessionIntensityWritten(t)
    /\ autoStops' = autoStops + 1

\* C10: when a loadPreset(p) called on a connected controller completes,
\* currentMode is p.mode, currentIntensity is p.intensity and the session is
\* active; and when the one-shot fires, the session is inactive.
C10_LoadPresetSetsAndStops ==
    [][/\ \A preset \in Presets : \A t \in Suspended :
             LoadPresetCompletes(t, preset)
                => /\ currentMode' = preset.mode
                   /\ currentIntensity' = preset.intensity
                   /\ sessionActive'
       /\ (\E stale \in BOOLEAN : AutoStopFire(stale)) => ~sessionActive']_vars

\* the fields a stopSession() call on an inactive session is to leave alone:
\* the connection, the session state, the mode, the intensity, the device
\* status shown, and the errors reported
C11_Frame ==
    <<gatt, listeners, sessionActive, sessionStartTime, currentMode, currentIntensity,
      deviceStatus, alerts>>

\* C11: stopSession() called when no session is active (by the user or by a
\* preset's auto-stop) is a no-op: neither the call nor its continuation
\* after the write of '-' reports an error or
\* changes the connection state, the session-active flag, the start
\* timestamp, currentMode, currentIntensity or the device status shown.
C11_StopWhenInactiveIsNoOp ==
    [][(~sessionActive /\ (\/ StopSession
                          \/ \E stale \in BOOLEAN : AutoStopFire(stale)
                          \/ \E t \in Suspended : StopSessionWritten(t)))
          => UNCHANGED C11_Frame]_vars

\* stopSession() has been called on a connected controller that shows a
\* battery voltage and never had a session
C11_Witness ==
    /\ Connected
    /\ sessionStartTime = NULL
    /\ batteryText # NoText
    /\ \E t \in Suspended : t.op = "stopSession" /\ t.data = Encode("-")

\* what an onConnected call has had written when it is suspended: nothing
\* while 'i' is in flight, 'i' while 'v' is in flight, 'i' and 'v' while 'Q'
\* is in flight, and one of the latter two during a pacing delay
OnConnectedInOrder ==
    \A t \in Suspended : t.op = "onConnected" =>
        CASE t.data = Encode("i") -> t.written = <<>>
          [] t.data = Encode("v") -> t.written = <<Encode("i")>>
          [] t.data = Encode("Q") -> t.written = <<Encode("i"), Encode("v")>>
          [] t.data = "" -> t.written \in {<<Encode("i")>>, <<Encode("i"), Encode("v")>>}
          [] OTHER -> FALSE

\* C12: after a successful connect, onConnected writes 'i', 'v' and 'Q' in
\* this order, each write starting only after the previous one has
\* completed, and a status-poll ticker is started only in the step in which
\* the write of 'Q' of an onConnected call completes.
C12_PostConnectOrder ==
    [][/\ OnConnectedInOrder'
       /\ statusPollers' # statusPollers
             => \E t \in Suspended :
                   /\ t.op = "onConnected"
                   /\ t.data = Encode("Q")
                   /\ t.written = <<Encode("i"), Encode("v")>>
                   /\ OnConnectedWritten(t)]_vars

\* a connect has succeeded and its onConnected has run to its end
C12_Witness == listeners = 1 /\ statusPollers = 1

\* C13: once the controller is connected and its post-connect queries are
\* over, a status-poll ticker is running, and no step stops a ticker:
\* whatever was called and whichever write failed before, QueryStatus keeps
\* being issued for the rest of the connection.
C13_PollerRunsWhileConnected ==
    [][/\ statusPollers' >= statusPollers
       /\ (Connected' /\ {t \in Suspended' : t.op \in {"connect", "onConnected"}} = {})
             => statusPollers' > 0]_vars

\* the QueryStatus writes of status-poll ticks that are pending
PollWrites == {t \in InFlight : t.op = "poll"}

\* C14: a status-poll tick never starts a QueryStatus write while the write
\* of an earlier tick is pending: at most one poll write is pending.
C14_PollNotReentrant == Count(PollWrites) <= 1

\* the status fields a step changes: 1 the device name, 2 the firmware,
\* 3 the battery, 4 the mode
ChangedFields == {i \in 1..4 : deviceStatus'[i] # deviceStatus[i]}

\* C15: a line is classified by the first test that matches, in the order
\* 'Pulsetto_' prefix (device name), 'fw:' prefix (firmware), contains
\* 'Batt:' (battery), contains 'mode:' (mode); so a line that contains both
\* 'Batt:' and 'mode:' and begins with neither prefix sets the battery and
\* never the mode.
C15_FirstMatchWins ==
    [][\A value \in Lines : HandleNotification(value) =>
          LET name == StartsWith(value, PulsettoPrefix)
              fw == StartsWith(value, FwPrefix)
              batt == Includes(value, BattKey)
              mode == Includes(value, ModeKey)
          IN  /\ name => ChangedFields = {1}
              /\ (~name /\ fw) => ChangedFields = {2}
              /\ (~name /\ ~fw /\ batt) => ChangedFields = {3}
              /\ (~name /\ ~fw /\ ~batt /\ mode) => ChangedFields = {4}
              /\ (~name /\ ~fw /\ ~batt /\ ~mode) => ChangedFields = {}
              /\ (batt /\ mode /\ ~name /\ ~fw)
                    => batteryText' # batteryText /\ modeText' = modeText]_vars

\* the line 'Batt:mode:A' has been handled: the battery shows what followed
\* 'Batt:' and the mode shows no report
C15_Witness ==
    /\ batteryText = ModeKey \o <<"A", "V">>
    /\ modeText = NoText

\* the status field the classification of a line names, as a set: empty
\* for a line of no known kind
NamedField(value) ==
    IF StartsWith(value, PulsettoPrefix) THEN {1}
    ELSE IF StartsWith(value, FwPrefix) THEN {2}
    ELSE IF Includes(value, BattKey) THEN {3}
    ELSE IF Includes(value, ModeKey) THEN {4}
    ELSE {}

\* C16: the handling of one notification changes at most one field of the
\* device status, the one the classification of the line names, and nothing
\* else: a line of no known kind changes nothing, no error is reported, and
\* currentMode, currentIntensity, the session state and the connection state
\* stay as they are.
C16_NotificationFrame ==
    [][\A value \in NotificationInputs : Notification(value) =>
          /\ Cardinality(ChangedFields) <= 1
          /\ ChangedFields \subseteq NamedField(value)
          /\ UNCHANGED <<gatt, listeners, local, session, timers, timerText, alerts,
                         tasks>>]_vars

\* during a session in mode 'D' the device has reported mode 'A': the page
\* shows LEFT and currentMode is still 'D'
C16_Witness ==
    /\ sessionActive
    /\ currentMode = "D"
    /\ modeText = ModeLabel(<<"A">>)

\* the decimal digit d
DecimalDigit(d) == <<"0", "1", "2", "3", "4", "5", "6", "7", "8", "9">>[d + 1]

\* a natural number below 100 in two digits
TwoDigits(n) == DecimalDigit(n \div 10) \o DecimalDigit(n % 10)

\* C17: for a session whose elapsed time is e whole seconds, updateTimer
\* shows e div 60 and e mod 60, each in two digits with a leading zero where
\* needed, joined by a colon; at e = 65 it shows 01:05.
C17_ElapsedDisplay ==
    [][(\E h \in intervals : UpdateTimer(h)) =>
          LET e == now - (sessionStartTime \div 1000)
          IN  /\ timerText' = TwoDigits(e \div 60) \o ":" \o TwoDigits(e % 60)
              /\ e = 65 => timerText' = "01:05"]_vars

\* updateTimer has run 65 seconds into the session
C17_Witness == now - (sessionStartTime \div 1000) = 65 /\ timerText = "01:05"

\* the suspended calls a step adds
Gained == BagToSet(tasks' (-) tasks)

\* startSession() called by the user on a connected, inactive controller
\* starts with the write of SetMode(currentMode) and nothing else; and when
\* a call made on a connected controller resumes after the pacing delay,
\* its mode write has completed and it starts the write of SetIntensity(level)
\* if level > 0 and no write if not
StartSessionBurst(level) ==
    /\ (StartSession /\ Connected /\ ~sessionActive)
          => \E u \in Gained :
                /\ Gained = {u}
                /\ u.op = "startSession"
                /\ u.data = Encode(currentMode)
                /\ u.written = <<>>
    /\ \A t \in Suspended :
          (t.caller = <<>> /\ t.ready /\ StartSessionDelayed(t))
             => IF level > 0
                   THEN \E u \in Gained :
                           /\ Gained = {u}
                           /\ u.op = "startSession"
                           /\ u.data = Encode(LevelString(level))
                           /\ Len(u.written) = 1
                           /\ currentIntensity' = level
                   ELSE Gained = {} /\ UNCHANGED currentIntensity

\* C18: startSession on a connected, inactive controller writes
\* SetMode(currentMode) first and, only after that write has completed,
\* writes SetIntensity(currentIntensity) if and only if currentIntensity is
\* greater than 0.
C18_StartSendsCurrentIntensity == [][StartSessionBurst(currentIntensity)]_vars

\* C18, amended: the level startSession writes, if greater than 0, after
\* the mode write has completed is the value the intensity slider has when
\* the pacing delay has elapsed, which it then assigns to currentIntensity;
\* with the slider at 0 it writes no SetIntensity.
C18_StartSendsSliderValue == [][StartSessionBurst(intensitySlider)]_vars

\* a startSession() made after the slider was moved to 3 has its mode write
\* completed and its write of '3' in flight
C18_Witness ==
    /\ intensitySlider = 3
    /\ \E t \in Suspended :
          /\ t.op = "startSession"
          /\ t.caller = <<>>
          /\ t.ready
          /\ t.data = Encode(LevelString(3))
          /\ t.written = <<Encode(currentMode)>>

\* C19: once a stopSession() has written '-' and no startSession() or
\* loadPreset() has been called since, no startSession call made before it
\* writes a command: a startSession call that was made on a connected
\* controller and resumes after its pacing delay while the session is
\* inactive starts no write.  (Such a call made the session active, so a
\* stopSession() has run since, the last call to touch the session; and the
\* controller being connected, that stopSession() wrote '-'.)
C19_NoCommandAfterEnd ==
    [][\A t \in Suspended :
          (t.ready /\ ~sessionActive /\ StartSessionDelayed(t)) => Gained = {}]_vars

====
